---- MODULE Spec2Model ----
(***************************************************************************)
(* Model of GoogleShopifyFinder (src/client_gatherer.py): the search       *)
(* driver search_norwegian_shopify, the batch orchestrator verify_stores   *)
(* and the per-URL check verify_store.                                     *)
(*                                                                         *)
(* Python strings are modelled as sequences of tokens (<<"https://","1">>  *)
(* is the URL https://1), Optional values as sequences of length 0 or 1    *)
(* (<<>> is None), dictionaries as records.                                *)
(***************************************************************************)
EXTENDS Integers, Sequences, FiniteSets, TLC

(***************************************************************************)
(* Bounds of the model.                                                    *)
(***************************************************************************)
\* distinct URLs the search API can return
NumUrls == 2
\* store_limit ranges over 0..MaxLimit
MaxLimit == 2
\* longest URL list handed directly to verify_stores
MaxInput == 6
\* longest page body, in tokens
MaxTokens == 2

(***************************************************************************)
(* Program constants.                                                      *)
(***************************************************************************)
\* len(results['items']) < 10
PageSize == 10

\* variant: twenty pages of a query are requested
MaxStartMutant == 20 * PageSize

\* while start_index < 100
MaxStart == 100
\* chunk_size = 5
chunk_size == 5

search_queries ==
    << "site:.no \"Powered by Shopify\"",
       "site:.no inurl:products shopify.com",
       "site:.no inurl:collections cdn.shopify.com",
       "site:.no \"Shopify online store\"",
       "site:.no nettbutikk shopify",
       "site:.no vipps shopify",
       "site:.no klarna shopify" >>

\* the six regular expressions of verify_store, as the literal each one
\* matches once case is folded
shopify_patterns ==
    << "cdn.shopify.com", "shopify.com/checkout", "shopify.theme",
       "shopify-payment-button", "powered by shopify", "_shopify_" >>

(***************************************************************************)
(* Strings and URLs.                                                       *)
(***************************************************************************)
\* the k-th URL: secure for odd k, plain for even k; every third URL
\* carries a second "https://" in its query string
UrlOf(k) ==
    << IF k % 2 = 1 THEN "https://" ELSE "http://", ToString(k) >>
    \o (IF k % 3 = 0 THEN << "?next=", "https://", "x" >> ELSE << >>)

\* url.replace('https://', 'http://'): every occurrence is replaced
ReplaceHttps(url) ==
    [ j \in 1..Len(url) |-> IF url[j] = "https://" THEN "http://" ELSE url[j] ]

\* case folding of the tokens a page body is made of (re.I)
Lower(tok) ==
    CASE tok = "CDN.Shopify.com"    -> "cdn.shopify.com"
      [] tok = "Powered By Shopify" -> "powered by shopify"
      [] tok = "Shopify.theme"      -> "shopify.theme"
      [] tok = "Info@Shop.no"       -> "info@shop.no"
      [] OTHER                      -> tok

RECURSIVE LStrip(_)
LStrip(s) == IF s # << >> /\ Head(s) = " " THEN LStrip(Tail(s)) ELSE s

RECURSIVE RStrip(_)
RStrip(s) ==
    IF s # << >> /\ s[Len(s)] = " " THEN RStrip(SubSeq(s, 1, Len(s) - 1)) ELSE s

\* str.strip()
Strip(s) == RStrip(LStrip(s))

(***************************************************************************)
(* The network and the pages it serves.                                    *)
(***************************************************************************)
Statuses == { 200, 401, 403, 404, 500 }

\* what one session.get yields: a response with a status, or an exception
Responses ==
    { [ exc |-> "none", status |-> s ] : s \in Statuses }
    \cup { [ exc |-> e, status |-> 0 ] : e \in { "ClientSSLError", "TimeoutError" } }

BodyTokens ==
    { "CDN.Shopify.com", "powered by shopify", "myshopify.com", "hello" }

RECURSIVE SeqsUpTo(_, _)
SeqsUpTo(S, n) ==
    IF n = 0 THEN { << >> }
    ELSE LET shorter == SeqsUpTo(S, n - 1)
         IN  shorter \cup { Append(s, x) : s \in { t \in shorter : Len(t) = n - 1 }, x \in S }

\* <title>: missing, present with no string (empty element), present with text
Titles ==
    { [ tag |-> FALSE, hasString |-> FALSE, string |-> << >> ],
      [ tag |-> TRUE,  hasString |-> FALSE, string |-> << >> ],
      [ tag |-> TRUE,  hasString |-> TRUE,  string |-> << " ", "Butikk", " " >> ] }

\* <meta name="description">: missing, present without content, with content
Metas ==
    { [ tag |-> FALSE, hasContent |-> FALSE, content |-> << >> ],
      [ tag |-> TRUE,  hasContent |-> FALSE, content |-> << >> ],
      [ tag |-> TRUE,  hasContent |-> TRUE,  content |-> << "Klaer" >> ] }

Pages ==
    [ text : SeqsUpTo(BodyTokens, MaxTokens), title : Titles, meta : Metas ]

NoPage ==
    [ text  |-> << >>,
      title |-> [ tag |-> FALSE, hasString |-> FALSE, string |-> << >> ],
      meta  |-> [ tag |-> FALSE, hasContent |-> FALSE, content |-> << >> ] ]

\* the behaviour of the network during one verify_store call: the outcome
\* of the 1st, 2nd and 3rd GET, of reading the body, and the page served
Scenarios ==
    [ net : [ 1..3 -> Responses ], read : { "ok", "error" }, page : Pages ]

(***************************************************************************)
(* verify_store: the page fetch with its plain-HTTP fallback.              *)
(*                                                                         *)
(* An outcome is what a block of the coroutine ends with: kind "html" (the *)
(* body was read and control goes on to the classification), "return" (a   *)
(* return statement: ret is the returned value) or "raise" (exc is the     *)
(* exception leaving the block).  requests lists the URL of every GET      *)
(* issued so far, responses what each of them yielded, and html is the     *)
(* body once it has been read (<<>> before).                               *)
(***************************************************************************)
Outcome(kind, ret, exc, requests, responses, html) ==
    [ kind |-> kind, ret |-> ret, exc |-> exc,
      requests |-> requests, responses |-> responses, html |-> html ]

\* html = await response.text()
ReadBody(sc, requests, responses) ==
    IF sc.read = "ok"
    THEN Outcome("html", << >>, "none", requests, responses, << sc.page >>)
    ELSE Outcome("raise", << >>, "ClientPayloadError", requests, responses, << >>)

\* except aiohttp.ClientSSLError: the n-th GET of the call goes to the
\* plain-HTTP URL; an exception of this GET leaves the handler
SslFallback(url, sc, n, requests, responses) ==
    LET http_url == ReplaceHttps(url)
        response == sc.net[n]
        reqs     == Append(requests, http_url)
        resps    == Append(responses, response)
    IN  IF response.exc # "none"
        THEN Outcome("raise", << >>, response.exc, reqs, resps, << >>)
        ELSE IF response.status # 200
        THEN Outcome("return", << >>, "none", reqs, resps, << >>)
        ELSE ReadBody(sc, reqs, resps)

\* variant: a retry after every status but 200
ShouldRetryMutant(status) == status # 200

\* if response.status in [403, 401]
ShouldRetry(status) == status \in { 403, 401 }

\* the retry inside the first response's block: it is still inside the try
\* whose handler is SslFallback
HttpRetry(url, sc, requests, responses) ==
    LET http_url      == ReplaceHttps(url)
        http_response == sc.net[2]
        reqs          == Append(requests, http_url)
        resps         == Append(responses, http_response)
    IN  IF http_response.exc = "ClientSSLError"
        THEN SslFallback(url, sc, 3, reqs, resps)
        ELSE IF http_response.exc # "none"
        THEN Outcome("raise", << >>, http_response.exc, reqs, resps, << >>)
        ELSE IF http_response.status # 200
        THEN Outcome("return", << >>, "none", reqs, resps, << >>)
        ELSE ReadBody(sc, reqs, resps)

\* the inner try statement: the first GET and what follows from it
FetchPage(url, sc) ==
    LET response == sc.net[1]
        reqs     == << url >>
        resps    == << response >>
    IN  IF response.exc = "ClientSSLError"
        THEN SslFallback(url, sc, 2, reqs, resps)
        ELSE IF response.exc # "none"
        THEN Outcome("raise", << >>, response.exc, reqs, resps, << >>)
        ELSE IF response.status # 200
        THEN IF ShouldRetry(response.status)
             THEN HttpRetry(url, sc, reqs, resps)
             ELSE Outcome("return", << >>, "none", reqs, resps, << >>)
        ELSE ReadBody(sc, reqs, resps)

(***************************************************************************)
(* verify_store: the classification of the fetched page.                   *)
(***************************************************************************)
\* the patterns re.search finds in the body, case ignored
FingerprintMatches(html) ==
    { p \in 1..Len(shopify_patterns) :
        \E j \in 1..Len(html.text) : Lower(html.text[j]) = shopify_patterns[p] }

\* variant: the indicator check is skipped
is_shopifyMutant(html) == TRUE

\* is_shopify = any(re.search(pattern, html, re.I) for pattern in ...)
is_shopify(html) == FingerprintMatches(html) # { }

\* the exception the metadata extraction raises on this page, or "none"
\* soup.title.string is None for a title element without a string, and
\* description['content'] needs the attribute
MetadataError(html) ==
    IF html.title.tag /\ ~html.title.hasString THEN "AttributeError"
    ELSE IF html.meta.tag /\ ~html.meta.hasContent THEN "KeyError"
    ELSE "none"

\* variant: the record carries the URL of the plain-HTTP fallback
store_infoMutant(url, html) ==
    [ url         |-> ReplaceHttps(url),
      title       |-> IF html.title.tag THEN Strip(html.title.string) ELSE << "Unknown" >>,
      description |-> IF html.meta.tag THEN html.meta.content ELSE << "No description" >>,
      verified    |-> TRUE ]

\* the record verify_store returns; its emails (find_emails, modelled on its
\* own below) and its discovery_date are not kept
store_info(url, html) ==
    [ url         |-> url,
      title       |-> IF html.title.tag THEN Strip(html.title.string) ELSE << "Unknown" >>,
      description |-> IF html.meta.tag THEN html.meta.content ELSE << "No description" >>,
      verified    |-> TRUE ]

\* from the Shopify indicators to return store_info
Classify(url, fetched) ==
    LET html == fetched.html[1]
    IN  IF ~is_shopify(html)
        THEN Outcome("return", << >>, "none",
                     fetched.requests, fetched.responses, fetched.html)
        ELSE IF MetadataError(html) # "none"
        THEN Outcome("raise", << >>, MetadataError(html),
                     fetched.requests, fetched.responses, fetched.html)
        ELSE Outcome("return", << store_info(url, html) >>, "none",
                     fetched.requests, fetched.responses, fetched.html)

\* variant: no handler, the exception leaves the coroutine
OuterExceptMutant(out) == out

\* except Exception as e: ... return None
OuterExcept(out) ==
    IF out.kind = "raise"
    THEN Outcome("return", << >>, out.exc, out.requests, out.responses, out.html)
    ELSE out

\* the whole coroutine after its first line: kind is "return" with ret the
\* returned value, or "raise" when an exception leaves the coroutine; exc
\* names the exception that ended the try block, "none" if none did
verify_store(url, sc) ==
    LET fetched == FetchPage(url, sc)
    IN  OuterExcept(IF fetched.kind = "html" THEN Classify(url, fetched) ELSE fetched)

\* whether the verification failed: an exception ended it, or the last
\* response did not have status 200
Failed(out) ==
    \/ out.exc # "none"
    \/ out.responses[Len(out.responses)].status # 200

(***************************************************************************)
(* verify_store: the points where the coroutine returns to the event loop. *)
(* It is suspended at each GET (await of session.get: line 74, line 79 for *)
(* the retry after 401/403, line 90 for the retry after a TLS error) and   *)
(* at the read of the body of the last GET (await response.text(): lines   *)
(* 86, 82 and 93).  A point is named by its operation and by the number of *)
(* GETs issued so far.                                                     *)
(***************************************************************************)
Suspension(op, n) == [ op |-> op, n |-> n ]

\* the suspension points the coroutine goes through, in order, under one
\* behaviour of the network
Suspensions(url, sc) ==
    LET fetched == FetchPage(url, sc)
        n       == Len(fetched.requests)
        last    == fetched.responses[n]
        gets    == [ j \in 1..n |-> Suspension("get", j) ]
    IN  IF last.exc = "none" /\ last.status = 200
        THEN Append(gets, Suspension("text", n))
        ELSE gets

\* the coroutine, having gone through the points of at, is suspended at the
\* last of them with more to come under sc: the points it has gone through
\* once it is suspended again, << >> when sc does not go through at or ends
\* with it
NextSuspended(at, url, sc) ==
    LET all == Suspensions(url, sc)
    IN  IF Len(at) < Len(all) /\ SubSeq(all, 1, Len(at)) = at
        THEN SubSeq(all, 1, Len(at) + 1)
        ELSE << >>

\* the behaviours of the network that differ in their GETs
NetScenarios ==
    { [ net |-> net, read |-> "ok", page |-> NoPage ] : net \in [ 1..3 -> Responses ] }

(***************************************************************************)
(* The search API.                                                         *)
(***************************************************************************)
\* the link of a result item: <<>> when the item has none
LinkSlot(j) == IF j = 0 THEN << >> ELSE UrlOf(j)

\* a page of n items whose links run through w slots starting at off; the
\* snippet tells the occurrences of one link apart
SearchPage(n, off, w, s) ==
    [ k \in 1..n |->
        [ link    |-> LinkSlot((off + ((k - 1) % w)) % (NumUrls + 1)),
          snippet |-> (s + ((k - 1) \div w)) % 2 ] ]

\* item counts of the pages served: empty, partial, full
PageLens == { 0, 7, PageSize }

\* what service.cse().list(...).execute() yields: a response without an
\* items field, one with items, an HttpError, or another exception
SearchResponses ==
    { [ kind |-> k, items |-> << >> ] : k \in { "noitems", "HttpError", "Exception" } }
    \cup { [ kind |-> "items", items |-> SearchPage(n, off, w, s) ] :
             n \in PageLens, off \in 0..NumUrls, w \in 1..(NumUrls + 1), s \in 0..1 }

\* the representative network behaviours met by the verifications of a batch
ShopPage ==
    [ text  |-> << "CDN.Shopify.com" >>,
      title |-> [ tag |-> TRUE, hasString |-> TRUE, string |-> << " ", "Butikk", " " >> ],
      meta  |-> [ tag |-> TRUE, hasContent |-> TRUE, content |-> << "Klaer" >> ] ]

BarePage == [ NoPage EXCEPT !.text = << "powered by shopify" >> ]

OtherPage == [ NoPage EXCEPT !.text = << "hello" >> ]

EmptyTitlePage ==
    [ BarePage EXCEPT !.title = [ tag |-> TRUE, hasString |-> FALSE, string |-> << >> ] ]

Status(s) == [ exc |-> "none", status |-> s ]

Raises(e) == [ exc |-> e, status |-> 0 ]

Scenario(r1, r2, r3, read, page) ==
    [ net |-> << r1, r2, r3 >>, read |-> read, page |-> page ]

BatchScenarios ==
    { Scenario(Status(200), Status(200), Status(200), "ok", ShopPage),
      Scenario(Status(403), Status(200), Status(200), "ok", BarePage),
      Scenario(Status(404), Status(200), Status(200), "ok", ShopPage),
      Scenario(Raises("TimeoutError"), Status(200), Status(200), "ok", ShopPage),
      Scenario(Raises("ClientSSLError"), Raises("ClientSSLError"), Status(200), "ok", ShopPage),
      Scenario(Status(200), Status(200), Status(200), "ok", OtherPage),
      Scenario(Status(200), Status(200), Status(200), "ok", EmptyTitlePage) }

\* the URLs verify_stores can be handed
BatchUrls == { UrlOf(k) : k \in 1..(NumUrls + MaxInput) }

\* the runs of verify_store on each URL under the behaviours of the network
\* in a batch: the suspension points gone through and the outcome
BatchRuns ==
    [ u \in BatchUrls |->
        { [ at |-> Suspensions(u, sc), out |-> verify_store(u, sc) ] :
              sc \in BatchScenarios } ]

(***************************************************************************)
(* State.                                                                  *)
(***************************************************************************)
VARIABLES
    pc,              \* where the run is
    store_limit,     \* self.store_limit
    stores_count,    \* self.stores_count
    checked_count,   \* self.checked_count
    qi,              \* index in search_queries of the query of the for loop
    start_index,     \* start_index of search_norwegian_shopify
    seen_urls,       \* seen_urls
    all_results,     \* all_results
    lastReq,         \* the last page request sent: its query and start index
    lastResp,        \* the kind and item count of the last response
    issued,          \* the queries a page was requested for
    first_seen,      \* the first item returned for each link returned so far
    search_results,  \* the argument of verify_stores
    urls,            \* urls of verify_stores
    i,               \* i of verify_stores' for loop
    tasks,           \* the verify_store coroutines of the current chunk
    verified_stores, \* verified_stores
    result,          \* the list verify_stores returned
    failed_urls,     \* the URLs whose verification failed
    call,            \* a verify_store call made on its own
    max_checks,      \* self.max_checks
    paused,          \* whether the driver has slept since its last page request
    started,         \* the positions of urls a verify_store call was started for, in order
    finished,        \* the positions of urls whose verify_store call has ended
    sleeps,          \* the pauses verify_stores has made
    mail             \* a find_emails call made on its own

vars ==
    << pc, store_limit, stores_count, checked_count, qi, start_index, seen_urls,
       all_results, lastReq, lastResp, issued, first_seen, search_results, urls, i,
       tasks, verified_stores, result, failed_urls, call, max_checks, paused, started,
       finished, sleeps, mail >>

searchVars ==
    << qi, start_index, seen_urls, all_results, lastReq, lastResp, issued, first_seen,
       paused >>

verifyVars ==
    << search_results, urls, i, tasks, verified_stores, result, failed_urls, started,
       finished, sleeps >>

NoCall == [ url |-> << >>, at |-> << >>, done |-> FALSE,
            out |-> Outcome("none", << >>, "none", << >>, << >>, << >>) ]

NoReq == [ q |-> 0, start |-> 0 ]

NoResp == [ kind |-> "none", n |-> 0 ]

\* no extraction of addresses has been asked for
NoMail == [ doc |-> << >>, runs |-> << >> ]

\* max_checks: int = 1000
DefaultMaxChecks == 1000

\* __init__, and the locals of search_norwegian_shopify before its loop
InitFields ==
    /\ stores_count = 0
    /\ checked_count = 0
    /\ qi = 1
    /\ start_index = 1
    /\ seen_urls = { }
    /\ all_results = << >>
    /\ lastReq = NoReq
    /\ lastResp = NoResp
    /\ issued = { }
    /\ first_seen = { }
    /\ urls = << >>
    /\ i = 0
    /\ tasks = << >>
    /\ verified_stores = << >>
    /\ result = << >>
    /\ failed_urls = { }
    /\ paused = FALSE
    /\ started = << >>
    /\ finished = { }
    /\ sleeps = 0

\* a run of main(): the finder is constructed and search_norwegian_shopify called
Init ==
    /\ InitFields
    /\ max_checks = DefaultMaxChecks
    /\ mail = NoMail
    /\ pc = "for"
    /\ store_limit \in { 0, MaxLimit }
    /\ search_results = << >>
    /\ call = NoCall

(***************************************************************************)
(* search_norwegian_shopify.                                               *)
(***************************************************************************)
\* variant: the limit is never checked
LimitReachedMutant == FALSE

\* if self.stores_count >= self.store_limit
LimitReached == stores_count >= store_limit

\* variant: seen_urls is not consulted
IsNewUrlMutant(url, seen) == url # << >>

\* if url and url not in seen_urls
IsNewUrl(url, seen) == url # << >> /\ url \notin seen

\* for item in results['items']: the loop from item k on
RECURSIVE AddItems(_, _, _, _)
AddItems(items, k, seen, results) ==
    IF k > Len(items) THEN [ seen |-> seen, results |-> results ]
    ELSE LET url == items[k].link
         IN  IF IsNewUrl(url, seen)
             THEN AddItems(items, k + 1, seen \cup { url }, Append(results, items[k]))
             ELSE AddItems(items, k + 1, seen, results)

\* variant: only an empty page ends the pagination
IsPartialPageMutant(items) == Len(items) = 0

\* if len(results['items']) < 10
IsPartialPage(items) == Len(items) < PageSize

\* start_index += 10
PageStep == 10

\* variant: an error ends the for loop
QueryAfterErrorMutant(q) == Len(search_queries) + 1

\* break in except HttpError, continue in except Exception: the for loop
\* goes on with the query after q
QueryAfterError(q) == q + 1

\* the items of a page that are the first returned for their link,
\* known being the links returned before the page
FirstOccurrences(items, known) ==
    { items[k] : k \in { j \in 1..Len(items) :
                           /\ items[j].link # << >>
                           /\ items[j].link \notin known
                           /\ \A h \in 1..(j - 1) : items[h].link # items[j].link } }

Links(items) == { items[k].link : k \in 1..Len(items) }

\* for query in search_queries: the limit check passes and the query starts
ForQuery ==
    /\ pc = "for"
    /\ qi <= Len(search_queries)
    /\ ~LimitReached
    /\ start_index' = 1
    /\ pc' = "while"
    /\ UNCHANGED << max_checks, mail, store_limit, stores_count, checked_count, qi,
                    seen_urls, all_results, lastReq, lastResp, issued, first_seen,
                    paused, call >>
    /\ UNCHANGED verifyVars

\* the for loop ends (exhausted, or break on the limit) and
\* verify_stores(all_results) is called; lastReq, lastResp and paused
\* describe the search in progress and are cleared with it
ForExit ==
    /\ pc = "for"
    /\ (qi > Len(search_queries) \/ LimitReached)
    /\ search_results' = all_results
    /\ lastReq' = NoReq
    /\ lastResp' = NoResp
    /\ paused' = FALSE
    /\ pc' = "verify_stores"
    /\ UNCHANGED << max_checks, mail, store_limit, stores_count, checked_count, qi,
                    start_index, seen_urls, all_results, issued, first_seen, call >>
    /\ UNCHANGED << urls, i, tasks, verified_stores, result, failed_urls, started,
                    finished, sleeps >>

\* while start_index < 100 is false, or the limit check inside it breaks
WhileExit ==
    /\ pc = "while"
    /\ (~(start_index < MaxStart) \/ LimitReached)
    /\ qi' = qi + 1
    /\ pc' = "for"
    /\ UNCHANGED << max_checks, mail, store_limit, stores_count, checked_count,
                    start_index, seen_urls, all_results, lastReq, lastResp, issued,
                    first_seen, paused, call >>
    /\ UNCHANGED verifyVars

\* one iteration of the while loop: the page request, and what the response
\* leads to, up to the break or to the suspension at asyncio.sleep(1)
PageRequest ==
    /\ pc = "while"
    /\ start_index < MaxStart
    /\ ~LimitReached
    /\ \E resp \in SearchResponses :
         LET added   == AddItems(resp.items, 1, seen_urls, all_results)
             isItems == resp.kind = "items"
             isError == resp.kind \in { "HttpError", "Exception" }
             more    == isItems /\ ~IsPartialPage(resp.items)
         IN  /\ lastReq' = [ q |-> qi, start |-> start_index ]
             /\ lastResp' = [ kind |-> resp.kind, n |-> Len(resp.items) ]
             /\ issued' = issued \cup { qi }
             /\ seen_urls' = IF isItems THEN added.seen ELSE seen_urls
             /\ all_results' = IF isItems THEN added.results ELSE all_results
             /\ first_seen' = first_seen
                              \cup FirstOccurrences(resp.items, { it.link : it \in first_seen })
             \* a full page: start_index += 10, await asyncio.sleep(1)
             /\ start_index' = IF more THEN start_index + PageStep ELSE start_index
             /\ paused' = FALSE
             /\ pc' = IF more THEN "pause" ELSE "for"
             /\ qi' = IF more THEN qi
                      ELSE IF isError THEN QueryAfterError(qi)
                      ELSE qi + 1
    /\ UNCHANGED << max_checks, mail, store_limit, stores_count, checked_count, call >>
    /\ UNCHANGED verifyVars

\* asyncio.sleep(1) returns and the while loop tests its condition again
PauseReturn ==
    /\ pc = "pause"
    /\ paused' = TRUE
    /\ pc' = "while"
    /\ UNCHANGED << max_checks, mail, store_limit, stores_count, checked_count, qi,
                    start_index, seen_urls, all_results, lastReq, lastResp, issued,
                    first_seen, call >>
    /\ UNCHANGED verifyVars

NextSearch == ForQuery \/ ForExit \/ WhileExit \/ PageRequest \/ PauseReturn

(***************************************************************************)
(* verify_stores.                                                          *)
(***************************************************************************)
Min(a, b) == IF a < b THEN a ELSE b

\* variant: the list is returned whole
TruncateMutant(stores, limit) == stores

\* verified_stores[:self.store_limit], store_limit >= 0
Truncate(stores, limit) == SubSeq(stores, 1, Min(limit, Len(stores)))

\* urls[i:i + chunk_size]
Chunk(list, from) == SubSeq(list, from + 1, Min(from + chunk_size, Len(list)))

\* variant: the count is written from a value read when the chunk was built
NextCheckedCountMutant == i + 1

\* self.checked_count += 1
NextCheckedCount == checked_count + 1

\* variant: verification never stops on the limit
LimitHitNever(verified) == FALSE

\* variant: verification stops only once the limit is exceeded
LimitHitStrict(verified) == Len(verified) > store_limit

\* variant: verification also stops once max_checks URLs were checked
LimitHitOrMaxChecks(verified) ==
    Len(verified) >= store_limit \/ checked_count >= max_checks

\* if len(verified_stores) >= self.store_limit
LimitHit(verified) == Len(verified) >= store_limit

\* variant: the stores found are counted after each chunk
StoresCountAfterChunkMutant(verified) == Len(verified)

\* self.stores_count once a chunk is processed: verify_stores never assigns it
StoresCountAfterChunk(verified) == stores_count

\* variant: the results are collected as soon as one task has finished
GatherReadyMutant(ts) == \E k \in 1..Len(ts) : ts[k].st = "done"

\* await asyncio.gather(*tasks, return_exceptions=True) returns once every
\* task of the chunk has finished
GatherReady(ts) == \A k \in 1..Len(ts) : ts[k].st = "done"

\* a coroutine of the chunk: at lists the suspension points it went through
\* while it is running
IdleTask == [ st |-> "idle", at |-> << >>, ret |-> << >>, raised |-> FALSE ]

\* [store for store in results if store is not None and not
\* isinstance(store, Exception)]: a task that raised contributes its
\* exception to results, one that returned contributes its return value
RECURSIVE ChunkStores(_, _)
ChunkStores(results, k) ==
    IF k > Len(results) THEN << >>
    ELSE (IF results[k].ret # << >> /\ ~results[k].raised THEN results[k].ret ELSE << >>)
         \o ChunkStores(results, k + 1)

\* the head of verify_stores, up to the for loop
VerifyStoresEntry ==
    /\ pc = "verify_stores"
    /\ IF search_results = << >>
       THEN /\ result' = << >>
            /\ pc' = "done"
            /\ UNCHANGED << urls, verified_stores, i >>
       ELSE /\ urls' = [ k \in 1..Len(search_results) |-> search_results[k].link ]
            /\ verified_stores' = << >>
            /\ i' = 0
            /\ pc' = "chunk"
            /\ UNCHANGED result
    /\ UNCHANGED << max_checks, mail, store_limit, stores_count, checked_count,
                    search_results, tasks, failed_urls, started, finished, sleeps, call >>
    /\ UNCHANGED searchVars

\* chunk = urls[i:i + chunk_size]; tasks = [...]; asyncio.gather(*tasks)
ChunkStart ==
    /\ pc = "chunk"
    /\ tasks' = [ k \in 1..Len(Chunk(urls, i)) |-> IdleTask ]
    /\ pc' = "gather"
    /\ UNCHANGED << max_checks, mail, store_limit, stores_count, checked_count,
                    search_results, urls, i, verified_stores, result, failed_urls,
                    started, finished, sleeps, call >>
    /\ UNCHANGED searchVars

\* the event loop starts the k-th coroutine of the chunk, in submission
\* order: it runs to its first suspension, the first GET
TaskStart(k) ==
    /\ pc = "gather"
    /\ tasks[k].st = "idle"
    /\ \A j \in 1..(k - 1) : tasks[j].st # "idle"
    /\ checked_count' = NextCheckedCount
    /\ started' = Append(started, i + k)
    /\ tasks' = [ tasks EXCEPT ![k].st = "running",
                               ![k].at = << Suspension("get", 1) >> ]
    /\ UNCHANGED << pc, max_checks, mail, store_limit, stores_count, search_results,
                    urls, i, verified_stores, result, failed_urls, finished, sleeps,
                    call >>
    /\ UNCHANGED searchVars

\* the k-th coroutine of the chunk is resumed from the GET it is suspended
\* at and runs to its next suspension
TaskResume(k) ==
    /\ pc = "gather"
    /\ tasks[k].st = "running"
    /\ \E run \in BatchRuns[urls[i + k]] :
         /\ Len(tasks[k].at) < Len(run.at)
         /\ SubSeq(run.at, 1, Len(tasks[k].at)) = tasks[k].at
         /\ tasks' = [ tasks EXCEPT ![k].at = SubSeq(run.at, 1, Len(@) + 1) ]
    /\ UNCHANGED << pc, max_checks, mail, store_limit, stores_count, checked_count,
                    search_results, urls, i, verified_stores, result, failed_urls,
                    started, finished, sleeps, call >>
    /\ UNCHANGED searchVars

\* the k-th coroutine of the chunk is resumed from its last suspension and
\* runs to its end
TaskFinish(k) ==
    /\ pc = "gather"
    /\ tasks[k].st = "running"
    /\ \E run \in BatchRuns[urls[i + k]] :
         LET out == run.out
         IN  /\ run.at = tasks[k].at
             /\ tasks' = [ tasks EXCEPT ![k] =
                             [ st |-> "done", at |-> << >>, ret |-> out.ret,
                               raised |-> out.kind = "raise" ] ]
             /\ failed_urls' = IF Failed(out) THEN failed_urls \cup { urls[i + k] }
                               ELSE failed_urls
    /\ finished' = finished \cup { i + k }
    /\ UNCHANGED << pc, max_checks, mail, store_limit, stores_count, checked_count,
                    search_results, urls, i, verified_stores, result, started, sleeps,
                    call >>
    /\ UNCHANGED searchVars

\* gather returns once every task is done: the loop body up to the return
\* of line 237 or to the suspension at asyncio.sleep(1)
ChunkCollect ==
    /\ pc = "gather"
    /\ GatherReady(tasks)
    /\ LET chunk_stores == ChunkStores(tasks, 1)
           verified     == verified_stores \o chunk_stores
       IN  /\ verified_stores' = verified
           /\ stores_count' = StoresCountAfterChunk(verified)
           /\ IF LimitHit(verified)
              THEN /\ result' = Truncate(verified, store_limit)
                   /\ pc' = "done"
                   /\ sleeps' = sleeps
              ELSE /\ pc' = "sleep"
                   /\ sleeps' = sleeps + 1
                   /\ UNCHANGED result
    /\ tasks' = << >>
    /\ UNCHANGED << max_checks, mail, store_limit, checked_count, search_results, urls,
                    i, failed_urls, started, finished, call >>
    /\ UNCHANGED searchVars

\* asyncio.sleep(1) returns: the next i of range(0, len(urls), 5), or the
\* return of line 242 when the range is exhausted, which leaves i as it is
ChunkSleepReturn ==
    /\ pc = "sleep"
    /\ IF i + chunk_size < Len(urls)
       THEN /\ i' = i + chunk_size
            /\ pc' = "chunk"
            /\ UNCHANGED result
       ELSE /\ i' = i
            /\ pc' = "done"
            /\ result' = verified_stores
    /\ UNCHANGED << max_checks, mail, store_limit, stores_count, checked_count,
                    search_results, urls, tasks, verified_stores, failed_urls, started,
                    finished, sleeps, call >>
    /\ UNCHANGED searchVars

NextVerify ==
    \/ VerifyStoresEntry
    \/ ChunkStart
    \/ \E k \in 1..chunk_size : k <= Len(tasks) /\ TaskStart(k)
    \/ \E k \in 1..chunk_size : k <= Len(tasks) /\ TaskResume(k)
    \/ \E k \in 1..chunk_size : k <= Len(tasks) /\ TaskFinish(k)
    \/ ChunkCollect
    \/ ChunkSleepReturn

\* verify_stores called on a list of its own
InputLists ==
    { [ k \in 1..n |-> [ link |-> UrlOf(k), snippet |-> 0 ] ] : n \in 0..MaxInput }

InitVerify ==
    /\ InitFields
    /\ max_checks = DefaultMaxChecks
    /\ mail = NoMail
    /\ pc = "verify_stores"
    /\ store_limit \in 0..MaxLimit
    /\ search_results \in InputLists
    /\ call = NoCall

(***************************************************************************)
(* verify_store called on its own.                                         *)
(***************************************************************************)
FetchUrls == { UrlOf(k) : k \in 1..3 }

InitFetch ==
    /\ InitFields
    /\ max_checks = DefaultMaxChecks
    /\ mail = NoMail
    /\ pc = "verify_store"
    /\ store_limit \in { MaxLimit }
    /\ search_results = << >>
    /\ call \in { [ NoCall EXCEPT !.url = u ] : u \in FetchUrls }

\* the coroutine is started and runs to its first suspension, the first GET
VerifyStoreStart ==
    /\ pc = "verify_store"
    /\ call.at = << >>
    /\ checked_count' = NextCheckedCount
    /\ call' = [ call EXCEPT !.at = << Suspension("get", 1) >> ]
    /\ UNCHANGED << pc, max_checks, mail, store_limit, stores_count >>
    /\ UNCHANGED searchVars
    /\ UNCHANGED verifyVars

\* the coroutine is resumed from the GET it is suspended at and runs to its
\* next suspension; the points it goes through depend on the GETs only
VerifyStoreResume ==
    /\ pc = "verify_store"
    /\ call.at # << >>
    /\ \E sc \in NetScenarios :
         LET next == NextSuspended(call.at, call.url, sc)
         IN  /\ next # << >>
             /\ call' = [ call EXCEPT !.at = next ]
    /\ UNCHANGED << pc, max_checks, mail, store_limit, stores_count, checked_count >>
    /\ UNCHANGED searchVars
    /\ UNCHANGED verifyVars

\* the coroutine is resumed from its last suspension and runs to its end
VerifyStoreReturn ==
    /\ pc = "verify_store"
    /\ call.at # << >>
    /\ \E sc \in Scenarios :
         /\ Suspensions(call.url, sc) = call.at
         /\ call' = [ call EXCEPT !.done = TRUE, !.out = verify_store(call.url, sc) ]
    /\ pc' = "returned"
    /\ UNCHANGED << max_checks, mail, store_limit, stores_count, checked_count >>
    /\ UNCHANGED searchVars
    /\ UNCHANGED verifyVars

\* one call of verify_store, under every behaviour of the network
VerifyStoreCall == VerifyStoreStart \/ VerifyStoreResume \/ VerifyStoreReturn

(***************************************************************************)
(* Specifications.                                                         *)
(***************************************************************************)
Next == NextSearch \/ NextVerify

\* a run of the program
Spec == Init /\ [][Next]_vars

\* verify_stores on every input list
SpecVerify == InitVerify /\ [][NextVerify]_vars

\* verify_store on every URL and behaviour of the network
SpecFetch == InitFetch /\ [][VerifyStoreCall]_vars

(***************************************************************************)
(* Properties.                                                             *)
(***************************************************************************)
RecordUrls(stores) == { stores[k].url : k \in 1..Len(stores) }

\* C1: the list verify_stores returns has at most store_limit entries, and
\* exactly store_limit entries whenever the accumulated number of verified
\* stores has reached store_limit.
C1_ReturnWithinLimit ==
    pc = "done" =>
        /\ Len(result) <= store_limit
        /\ (Len(verified_stores) >= store_limit => Len(result) = store_limit)

\* store_limit = 1 and a chunk of five successes: one record is returned
C1_Witness ==
    /\ pc = "done"
    /\ store_limit = 1
    /\ Len(verified_stores) = chunk_size
    /\ Len(result) = 1

\* C2: during the search the accumulated results hold no two items with the
\* same URL, and the item kept for a URL is the first one returned for it.
C2_NoDuplicateUrls ==
    /\ \A a, b \in 1..Len(all_results) :
         a # b => all_results[a].link # all_results[b].link
    /\ { all_results[k] : k \in 1..Len(all_results) } = first_seen

\* a full page of the second query, all of whose URLs are already known or
\* repeated within the page
C2_Witness ==
    /\ lastReq.q = 2
    /\ lastResp.kind = "items"
    /\ lastResp.n = PageSize
    /\ Len(all_results) = NumUrls

\* C3: verify_store returns a record only for a page that matched at least
\* one fingerprint, and every record it returns has verified set.
C3_RecordOnlyWithFingerprint ==
    (call.done /\ call.out.ret # << >>) =>
        /\ call.out.html # << >>
        /\ FingerprintMatches(call.out.html[1]) # { }
        /\ call.out.ret[1].verified = TRUE

\* a page with a fingerprint gave a record
C3_Witness ==
    /\ call.done
    /\ call.out.ret # << >>
    /\ call.out.html # << >>
    /\ Cardinality(FingerprintMatches(call.out.html[1])) = 1

\* C4: every fetched page with at least one fingerprint match yields a
\* record, whatever the state of its title and meta description elements,
\* with the defaults for the elements that are missing.
C4_MatchingPageYieldsRecord ==
    (call.done /\ call.out.html # << >>
        /\ FingerprintMatches(call.out.html[1]) # { }) =>
        /\ call.out.kind = "return"
        /\ call.out.ret # << >>
        /\ (~call.out.html[1].title.tag => call.out.ret[1].title = << "Unknown" >>)
        /\ (~call.out.html[1].meta.tag =>
              call.out.ret[1].description = << "No description" >>)

DeniedOrTls(response) ==
    \/ response.exc = "ClientSSLError"
    \/ response.exc = "none" /\ response.status \in { 401, 403 }

\* C5: a retry is issued if and only if the first GET returned 401 or 403
\* or failed with a TLS error, and it goes to the plain-HTTP URL; a body is
\* taken only from a response with status 200; any other first status gives
\* None without a second request; a non-200 status on a retry gives None.
C5_RetryOnlyAfterDeniedOrTls ==
    call.done =>
        LET out   == call.out
            n     == Len(out.responses)
            first == out.responses[1]
        IN  /\ (Len(out.requests) >= 2) <=> DeniedOrTls(first)
            /\ \A j \in 2..Len(out.requests) : out.requests[j][1] = "http://"
            /\ out.html # << >> =>
                 out.responses[n].exc = "none" /\ out.responses[n].status = 200
            /\ (first.exc = "none" /\ first.status \notin { 200, 401, 403 }) =>
                 out.ret = << >> /\ Len(out.requests) = 1
            /\ \A j \in 2..n :
                 (out.responses[j].exc = "none" /\ out.responses[j].status # 200) =>
                    out.ret = << >>

\* 403 on the first GET, 200 on the retry, and a record
C5_Witness ==
    /\ call.done
    /\ Len(call.out.requests) = 2
    /\ call.out.responses[1].status = 403
    /\ call.out.responses[2].status = 200
    /\ call.out.ret # << >>

\* C6: one verify_store call issues at most two GET requests.
C6_AtMostTwoGets == call.done => Len(call.out.requests) <= 2

StartedBefore(k) == \A j \in 1..(k - 1) : tasks[j].st # "idle"

\* C7: no failure of a verification leaves verify_store as an exception or
\* aborts the chunk: the failing URL contributes no record, its siblings can
\* always start, be resumed and finish, gather returns only when all of them
\* are done, and verify_stores goes on with the next chunk.
C7_FailuresContained ==
    /\ [](\A k \in 1..Len(tasks) : ~tasks[k].raised)
    /\ [](\A u \in failed_urls :
             /\ u \notin RecordUrls(verified_stores)
             /\ u \notin RecordUrls(result)
             /\ \A k \in 1..Len(tasks) : urls[i + k] = u => tasks[k].ret = << >>)
    /\ [](pc = "gather" =>
             \A k \in 1..Len(tasks) :
                /\ tasks[k].st = "running" => ENABLED (TaskResume(k) \/ TaskFinish(k))
                /\ (tasks[k].st = "idle" /\ StartedBefore(k)) => ENABLED TaskStart(k))
    /\ [][(pc = "gather" /\ pc' # "gather") =>
             /\ \A k \in 1..Len(tasks) : tasks[k].st = "done"
             /\ Len(verified_stores') < store_limit => pc' = "sleep"]_vars
    /\ [][(pc = "sleep" /\ pc' # "sleep" /\ i + chunk_size < Len(urls)) =>
             (pc' = "chunk" /\ i' = i + chunk_size)]_vars

\* the first chunk held a failure and a store, and the second chunk is running
C7_Witness ==
    /\ pc = "gather"
    /\ i = chunk_size
    /\ \E k \in 1..chunk_size : urls[k] \in failed_urls
    /\ verified_stores # << >>
    /\ \E k \in 1..Len(tasks) : tasks[k].st = "done"

\* C8: a further page of a query is requested only after a full page of that
\* query; a response without items or with a partial page ends the query's
\* pagination, and the items of a partial page are added to the results.
C8_NextPageOnlyAfterFullPage ==
    /\ [][(lastReq' # lastReq /\ lastReq'.q > 0) =>
             IF lastReq'.start > 1
             THEN /\ lastResp.kind = "items"
                  /\ lastResp.n >= PageSize
                  /\ lastReq'.q = lastReq.q
                  /\ lastReq'.start = lastReq.start + PageStep
             ELSE lastReq'.q > lastReq.q]_vars
    /\ [][(lastReq' # lastReq /\
              (lastResp'.kind = "noitems" \/
                 (lastResp'.kind = "items" /\ lastResp'.n < PageSize))) =>
             (pc' = "for" /\ qi' = qi + 1)]_vars
    /\ []({ it.link : it \in first_seen } = Links(all_results))

\* a page of 7 items ended the pagination of its query and left results
C8_Witness ==
    /\ lastResp.kind = "items"
    /\ lastResp.n = 7
    /\ pc = "for"
    /\ qi = lastReq.q + 1
    /\ all_results # << >>

\* C9: no query is started and no page is requested in a state where the
\* number of verified stores is at least store_limit.
C9_NoSearchPastLimit ==
    [][((lastReq' # lastReq /\ lastReq'.q > 0) \/ (pc = "for" /\ pc' = "while")) =>
          Len(verified_stores) < store_limit]_vars

\* the limit is reached from the start and the run ends without a request
C9_Witness ==
    /\ pc = "done"
    /\ Len(verified_stores) >= store_limit
    /\ issued = { }

SearchErrors == { "HttpError", "Exception" }

IsPrefix(s, t) == Len(s) <= Len(t) /\ \A k \in 1..Len(s) : s[k] = t[k]

\* C10: an error of a page request ends only the pagination of its query:
\* the next request is the first page of the following query, every query of
\* the list is issued, the results collected before the error are kept, and
\* verify_stores is called with them.
C10_ErrorEndsOnlyItsQuery ==
    /\ [][(lastReq' # lastReq /\ lastResp'.kind \in SearchErrors) =>
             /\ all_results' = all_results
             /\ pc' = "for"
             /\ qi' = qi + 1]_vars
    /\ [][(lastReq' # lastReq /\ lastReq'.q > 0 /\ lastResp.kind \in SearchErrors) =>
             /\ lastReq'.q = lastReq.q + 1
             /\ lastReq'.start = 1]_vars
    /\ [][IsPrefix(all_results, all_results')]_vars
    /\ []((pc \notin { "for", "while", "pause" } /\ store_limit >= 1) =>
             issued = 1..Len(search_queries))
    /\ [](pc \notin { "for", "while", "pause" } => search_results = all_results)

\* the query after one that ended in an error has been started, with the
\* earlier results still there
C10_Witness ==
    /\ pc = "while"
    /\ lastResp.kind \in SearchErrors
    /\ qi = lastReq.q + 1
    /\ start_index = 1
    /\ all_results # << >>

(***************************************************************************)
(* Claims about the batches of verify_stores.                              *)
(***************************************************************************)
\* the positions of the input list whose verification has started
StartedSet == { started[n] : n \in 1..Len(started) }

\* the verifications that have started and not yet finished
InFlight == StartedSet \ finished

\* the number of the batch that holds position p of the input list
BatchOf(p) == (p - 1) \div chunk_size

\* C11: whenever a verification of a batch has started, every verification of
\* every earlier batch has finished, and never more than 5 verifications are
\* in flight, whatever the order in which the verifications of a batch finish
C11_BatchesSequential ==
    /\ Cardinality(InFlight) <= chunk_size
    /\ \A p \in StartedSet :
         \A q \in 1..Len(urls) : BatchOf(q) < BatchOf(p) => q \in finished

\* a verification of the second batch is in flight after a first batch of five
C11_Witness ==
    /\ \E p \in InFlight : BatchOf(p) = 1
    /\ Cardinality(finished) = chunk_size

(***************************************************************************)
(* find_emails.  The raw HTML is a sequence of tokens; an anchor is the    *)
(* span between OpenTag and CloseTag, and its href is the tokens between.  *)
(***************************************************************************)
MaxDoc == 5
MaxRuns == 2

OpenTag  == "<a href=\""
CloseTag == "\">mail</a>"

\* the tokens email_pattern matches as a whole
Addresses == { "Info@Shop.no", "info@shop.no", "post@shop.no" }

MailTokens == Addresses \cup { OpenTag, CloseTag, "mailto:", "?subject=hi", ",", " " }

\* an anchor never opens inside another and every anchor is closed
RECURSIVE WellFormed(_, _)
WellFormed(html, open) ==
    IF html = << >> THEN ~open
    ELSE IF Head(html) = OpenTag THEN ~open /\ WellFormed(Tail(html), TRUE)
    ELSE IF Head(html) = CloseTag THEN open /\ WellFormed(Tail(html), FALSE)
    ELSE WellFormed(Tail(html), open)

\* every address token is delimited by characters outside the classes of
\* email_pattern, so that the pattern matches exactly the address tokens
Delimited(html) ==
    \A n \in 1..Len(html) :
        html[n] \in Addresses =>
            /\ n = 1 \/ html[n - 1] \in { OpenTag, CloseTag, "mailto:", ",", " " }
            /\ n = Len(html) \/ html[n + 1] \in { OpenTag, CloseTag, "?subject=hi", ",", " " }

\* the documents of at most n tokens
Documents(n) ==
    { html \in SeqsUpTo(MailTokens, n) : WellFormed(html, FALSE) /\ Delimited(html) }

\* the href of every anchor of the parsed document, in document order
RECURSIVE Hrefs(_)
Hrefs(html) ==
    IF html = << >> THEN << >>
    ELSE IF Head(html) = OpenTag
         THEN LET close == CHOOSE m \in 2..Len(html) :
                               /\ html[m] = CloseTag
                               /\ \A j \in 2..(m - 1) : html[j] # CloseTag
              IN  << SubSeq(html, 2, close - 1) >>
                      \o Hrefs(SubSeq(html, close + 1, Len(html)))
         ELSE Hrefs(Tail(html))

\* href=re.compile(r'mailto:'): the pattern is searched anywhere in the href
HasMailto(href) == \E n \in 1..Len(href) : href[n] = "mailto:"

\* link['href'].replace('mailto:', ''): every occurrence is removed
RemoveMailto(href) == SelectSeq(href, LAMBDA tok : tok # "mailto:")

\* .split('?')[0]
RECURSIVE SplitQuery(_)
SplitQuery(s) ==
    IF s = << >> \/ Head(s) = "?subject=hi" THEN << >>
    ELSE << Head(s) >> \o SplitQuery(Tail(s))

\* self.email_pattern.match(email): the pattern is matched at the start of
\* the string, whatever follows the match
PatternMatch(s) == s # << >> /\ Head(s) \in Addresses

\* self.email_pattern.findall(html)
FindAll(html) == SelectSeq(html, LAMBDA tok : tok \in Addresses)

\* email.lower()
LowerStr(s) == [ n \in 1..Len(s) |-> Lower(s[n]) ]

\* the string taken from one mailto link
LinkEmail(href) == Strip(SplitQuery(RemoveMailto(href)))

\* the set emails of find_emails before it is returned
find_emails(html) ==
    LET hrefs == Hrefs(html)
        links == { hrefs[n] : n \in { m \in 1..Len(hrefs) : HasMailto(hrefs[m]) } }
        found == FindAll(html)
    IN  { LowerStr(LinkEmail(h)) : h \in { l \in links : PatternMatch(LinkEmail(l)) } }
            \cup { << Lower(found[n]) >> : n \in 1..Len(found) }

\* list(emails): the elements of the set in an order the build decides
ListOf(S) ==
    { l \in [ 1..Cardinality(S) -> S ] : \A e \in S : \E n \in 1..Len(l) : l[n] = e }

\* one call of find_emails on the document
FindEmailsCall ==
    /\ pc = "find_emails"
    /\ Len(mail.runs) < MaxRuns
    /\ \E l \in ListOf(find_emails(mail.doc)) :
         mail' = [ mail EXCEPT !.runs = Append(@, l) ]
    /\ UNCHANGED << pc, max_checks, store_limit, stores_count, checked_count, call >>
    /\ UNCHANGED searchVars
    /\ UNCHANGED verifyVars

InitEmails ==
    /\ InitFields
    /\ pc = "find_emails"
    /\ max_checks = DefaultMaxChecks
    /\ store_limit \in { MaxLimit }
    /\ search_results = << >>
    /\ call = NoCall
    /\ mail \in { [ NoMail EXCEPT !.doc = html ] : html \in Documents(MaxDoc) }

\* find_emails on every document
SpecEmails == InitEmails /\ [][FindEmailsCall]_vars

\* the addresses a document holds, in lower case
AddressesIn(html) ==
    { << Lower(html[n]) >> : n \in { m \in 1..Len(html) : html[m] \in Addresses } }

\* C12: every list find_emails returns is duplicate-free and holds lower-case
\* addresses only, namely those of the mailto links and of the raw HTML, and
\* a second extraction from the same document yields the same set
C12_EmailsAreLowerCaseAddresses ==
    \A r \in 1..Len(mail.runs) :
        LET l == mail.runs[r]
        IN  /\ \A m, n \in 1..Len(l) : l[m] = l[n] => m = n
            /\ \A n \in 1..Len(l) : l[n] \in AddressesIn(mail.doc)
            /\ \A e \in AddressesIn(mail.doc) : \E n \in 1..Len(l) : l[n] = e
            /\ \A q \in 1..Len(mail.runs) :
                 { l[n] : n \in 1..Len(l) }
                     = { mail.runs[q][n] : n \in 1..Len(mail.runs[q]) }

(***************************************************************************)
(* Claims about the pauses.                                                *)
(***************************************************************************)
\* C13: every page request that follows an earlier page request of the run
\* is sent after a pause, within a query and from one query to the next
C13_PauseBetweenRequests ==
    [][ (lastReq # NoReq /\ lastReq' # NoReq /\ lastReq' # lastReq) => paused ]_vars

\* the number of batches of which a verification has started
BatchesStarted ==
    IF started = << >> THEN 0 ELSE BatchOf(started[Len(started)]) + 1

\* C14 as stated: when verify_stores has returned, it has paused once after
\* every batch it processed, the final one included, on every path
C14_PauseAfterEveryBatch ==
    (pc = "done" /\ started # << >>) => sleeps = BatchesStarted

\* C14: verify_stores pauses after every batch that leaves the accumulated
\* count below store_limit, the final batch of the list included, and does not
\* pause after the batch that brings the count to store_limit
C14_PauseUnlessLimitReached ==
    /\ pc \in { "chunk", "gather" } => sleeps = i \div chunk_size
    /\ pc = "sleep" => (sleeps = i \div chunk_size + 1 /\ Len(verified_stores) < store_limit)
    /\ (pc = "done" /\ started # << >>) =>
           sleeps = BatchesStarted
                        - (IF Len(verified_stores) >= store_limit THEN 1 ELSE 0)

\* two batches were processed: a pause followed the first, and none followed
\* the second, which reached the limit
C14_Witness ==
    /\ pc = "done"
    /\ BatchesStarted = 2
    /\ store_limit >= 1
    /\ Len(verified_stores) >= store_limit
    /\ sleeps = 1

(***************************************************************************)
(* verify_stores on a finder constructed with a small max_checks.          *)
(***************************************************************************)
MaxChecks == 2

InitChecks ==
    /\ InitFields
    /\ max_checks \in 0..MaxChecks
    /\ mail = NoMail
    /\ pc = "verify_stores"
    /\ store_limit \in { MaxLimit }
    /\ search_results \in InputLists
    /\ call = NoCall

\* verify_stores for every max_checks
SpecChecks == InitChecks /\ [][NextVerify]_vars

\* C15: max_checks never stops verification: verify_stores leaves URLs
\* unverified only when the accumulated count has reached store_limit, what it
\* returns is the accumulated list cut at store_limit, and checked_count goes
\* on counting the started verifications beyond max_checks
C15_MaxChecksNotConsulted ==
    /\ checked_count = Len(started)
    /\ (pc = "done" /\ Len(started) < Len(urls)) => Len(verified_stores) >= store_limit
    /\ pc = "done" => result = SubSeq(verified_stores, 1, Min(store_limit, Len(verified_stores)))

\* more verifications have started than max_checks allows, and the batch goes on
C15_Witness ==
    /\ max_checks >= 1
    /\ checked_count > max_checks
    /\ Len(verified_stores) < store_limit
    /\ pc = "gather"
    /\ \E k \in 1..Len(tasks) : tasks[k].st = "running"

(***************************************************************************)
(* Claims about the counters.                                              *)
(***************************************************************************)
\* C16: stores_count is 0 in every state of a run, so that for store_limit >= 1
\* the limit checks of the search never succeed and the search has issued
\* every one of the seven queries when it ends
C16_StoresCountStaysZero ==
    /\ stores_count = 0
    /\ store_limit >= 1 => stores_count < store_limit
    /\ (store_limit >= 1 /\ pc \notin { "for", "while", "pause" }) =>
           issued = 1..Len(search_queries)

\* the run has ended with as many stores as the limit asks for, all seven
\* queries were issued and the counter is still 0
C16_Witness ==
    /\ pc = "done"
    /\ store_limit >= 1
    /\ Len(result) = store_limit
    /\ issued = 1..7
    /\ stores_count = 0

\* C17: in every state checked_count equals the number of verify_store calls
\* started so far, whatever the order in which the verifications of a batch
\* run and finish; it never decreases, and it moves by one, with the start of
\* one verification
C17_CheckedCountExact ==
    /\ [](/\ checked_count = Len(started)
          /\ Len(started) = Cardinality(StartedSet)
          /\ Cardinality(finished) <= checked_count)
    /\ [][ /\ checked_count' >= checked_count
           /\ checked_count' # checked_count =>
                  (checked_count' = checked_count + 1
                      /\ Len(started') = Len(started) + 1) ]_vars

\* three verifications of a batch have started, the second has finished
\* while the first and the third are suspended
C17_Witness ==
    /\ pc = "gather"
    /\ checked_count = 3
    /\ finished = { 2 }
    /\ InFlight = { 1, 3 }

(***************************************************************************)
(* Claims about which URLs verify_stores verifies.                         *)
(***************************************************************************)
\* no position of the input list is started twice, and the positions are
\* started in the order of the list
StartedOnceInOrder == \A n \in 1..Len(started) : started[n] = n

\* a verification of the batch at offset i has started
BatchUnderWay == pc = "gather" /\ \E p \in StartedSet : p > i

\* C18 as stated: each position is verified at most once, a verification of a
\* batch starts only while the count accumulated by the earlier batches is
\* below store_limit, and a URL is left unverified only when it is not
C18_VerifiedIffBelowLimit ==
    /\ StartedOnceInOrder
    /\ BatchUnderWay => Len(verified_stores) < store_limit
    /\ (pc = "done" /\ StartedSet # 1..Len(urls)) => Len(verified_stores) >= store_limit

\* C18: each position is verified at most once; the first batch of a
\* non-empty list is always verified, whatever store_limit is; a verification
\* of a later batch starts only while the count accumulated by the earlier
\* batches is below store_limit; and when verify_stores has returned, the
\* URLs verified are all of them if the count stayed below store_limit, and
\* otherwise exactly those of the batches up to the one that reached it
C18_LaterBatchIffBelowLimit ==
    /\ StartedOnceInOrder
    /\ (BatchUnderWay /\ i >= chunk_size) => Len(verified_stores) < store_limit
    /\ (pc = "done" /\ urls # << >>) =>
           /\ 1..Min(chunk_size, Len(urls)) \subseteq StartedSet
           /\ StartedSet = 1..Min(Len(urls), BatchesStarted * chunk_size)
           /\ StartedSet # 1..Len(urls) => Len(verified_stores) >= store_limit

\* with store_limit = 0 the five URLs of the first batch were verified and
\* the sixth, in the second batch, was not
C18_Witness ==
    /\ pc = "done"
    /\ store_limit = 0
    /\ Len(urls) = chunk_size + 1
    /\ StartedSet = 1..chunk_size

(***************************************************************************)
(* Termination of the search.                                              *)
(***************************************************************************)
\* the coroutine is resumed whenever it can take a step, and every request
\* to the search API returns or raises
FairSpec == Spec /\ WF_vars(NextSearch)

Searching == pc \in { "for", "while", "pause" }

\* the start indexes of the pages of one query
StartIndexes == { 1 + PageStep * n : n \in 0..9 }

\* the rank of a page request among the 70 a run can make
RequestRank(req) == (req.q - 1) * 10 + (req.start - 1) \div PageStep + 1

\* grows with every step of the search
SearchMeasure ==
    IF Searching
    THEN 200 * qi + (IF pc = "while" THEN start_index
                     ELSE IF pc = "pause" THEN start_index - 1
                     ELSE 0)
    ELSE 200 * (Len(search_queries) + 2)

\* C19: every page request uses one of the start indexes 1, 11, ..., 91 of
\* one of the 7 queries, and ranks above every earlier request of the run, so
\* that a query gets at most 10 requests and a run at most 70; every step of
\* the search raises a bounded measure, and the search ends
C19_SearchTerminates ==
    /\ [](lastReq # NoReq =>
            /\ lastReq.q \in 1..Len(search_queries)
            /\ lastReq.start \in StartIndexes
            /\ RequestRank(lastReq) \in 1..70)
    /\ [][ (lastReq' # lastReq /\ lastReq # NoReq /\ lastReq' # NoReq) =>
               RequestRank(lastReq') > RequestRank(lastReq) ]_vars
    /\ [][ Searching => SearchMeasure' > SearchMeasure ]_vars
    /\ <>(~Searching)

\* the tenth page of the seventh query was requested and came back full
C19_Witness ==
    /\ lastReq = [ q |-> 7, start |-> 91 ]
    /\ lastResp.kind = "items"
    /\ lastResp.n = PageSize
    /\ pc = "for"

(***************************************************************************)
(* Claims about the list verify_stores returns.                            *)
(***************************************************************************)
\* the records of l carry URLs of the input list, at strictly increasing
\* positions of it
SubsequenceOfInput(l) ==
    /\ \A n \in 1..Len(l) : \E p \in 1..Len(urls) : urls[p] = l[n].url
    /\ \A m, n \in 1..Len(l) :
         m < n => \A p, q \in 1..Len(urls) :
                      (urls[p] = l[m].url /\ urls[q] = l[n].url) => p < q

\* C20: the records accumulated and returned by verify_stores carry the URLs
\* as they were submitted, in the relative order of the input list, whatever
\* the order in which the verifications finish and also when the page was
\* fetched through the plain-HTTP fallback
C20_ResultIsSubsequenceOfInput ==
    /\ SubsequenceOfInput(verified_stores)
    /\ pc = "done" => SubsequenceOfInput(result)

\* two records are returned; one of them, for a secure URL, has the title
\* given to a page without title, which the batch serves only through the
\* plain-HTTP fallback after a 403
C20_Witness ==
    /\ pc = "done"
    /\ Len(result) >= 2
    /\ \E n \in 1..Len(result) :
         /\ result[n].title = << "Unknown" >>
         /\ Head(result[n].url) = "https://"

====
